---- MODULE Spec2Model ----
(***************************************************************************)
(* sjtu::list<T> (src/list.hpp): a doubly linked list with a head and a    *)
(* tail sentinel, a stored element count, and iterators that carry a node  *)
(* pointer and an owner pointer.                                           *)
(*                                                                         *)
(* The heap is a table of nodes indexed by address; address Null is the    *)
(* null pointer.  Two list objects, "A" and "B", are alive throughout.     *)
(* The caller holds one iterator object, it; a const_iterator exists only  *)
(* as a copy of it made for one call.  The caller makes one call at a      *)
(* time: last names the call that has returned or thrown (with res its     *)
(* outcome and ret the value returned) until the caller goes on.           *)
(*                                                                         *)
(* size_t is modelled by its signed representative: the code only adds or  *)
(* subtracts one and compares with 0 and 1, and fewer than 2^63 steps are  *)
(* ever taken, so -1 stands for 2^64 - 1 without ambiguity.                *)
(***************************************************************************)
EXTENDS Integers, Sequences, FiniteSets, TLC

\* Number of data nodes that may be allocated in one run.
MaxData == 2

\* Number of pushes in a run of pushes and pops alone.
MaxPush == 4

\* Longest list handed to merge.
MaxLen == 3

\* The null pointer (node::prev, node::next, node::val, iterator::p).
Null == 0

\* The heap is a sequence of nodes; the address of a node is its index.
Addrs(h) == 1..Len(h)

\* Element values (T = int); 0 is kept for "no value" (val == nullptr).
Values == {1, 2}

Lists == {"A", "B"}
NoList == "none"

VARIABLES heap, lists, it, res, ret, last, pushes, pops, abs, want, snap

vars == <<heap, lists, it, res, ret, last, pushes, pops, abs, want, snap>>

----------------------------------------------------------------------------
(* Nodes                                                                   *)

\* node() : prev(nullptr), next(nullptr), val(nullptr)
SentinelNode == [prev |-> Null, next |-> Null, val |-> Null, st |-> "live"]

\* node(const T &v) : prev(nullptr), next(nullptr), val(new T(v))
DataNode(v) == [prev |-> Null, next |-> Null, val |-> v, st |-> "live"]

UnusedNode == [prev |-> Null, next |-> Null, val |-> Null, st |-> "unused"]
FreedNode == [prev |-> Null, next |-> Null, val |-> Null, st |-> "freed"]

Live(h, p) == p # Null /\ h[p].st = "live"

\* operator new: the lowest address never handed out; Null when the heap
\* is exhausted (the action that allocates is then disabled).
Fresh(h) ==
    IF \E k \in Addrs(h) : h[k].st = "unused"
    THEN CHOOSE k \in Addrs(h) : h[k].st = "unused" /\ \A j \in 1..(k - 1) : h[j].st # "unused"
    ELSE Null

\* delete p: runs ~node and releases the storage; deleting a node that is
\* not live is undefined (flag ub).
Delete(h, p) ==
    IF p = Null THEN [h |-> h, ub |-> FALSE]
    ELSE IF h[p].st # "live" THEN [h |-> h, ub |-> TRUE]
    ELSE [h |-> [h EXCEPT ![p] = FreedNode], ub |-> FALSE]

\* A store through a pointer: q->f = x.  A store through a null pointer or
\* into storage that is not live is undefined; the continuing outcome drops
\* the store.
StoreNext(h, q, x) == IF Live(h, q) THEN [h EXCEPT ![q].next = x] ELSE h
StorePrev(h, q, x) == IF Live(h, q) THEN [h EXCEPT ![q].prev = x] ELSE h

\* A load through a pointer; Null stands in for the undefined load.
LoadNext(h, q) == IF Live(h, q) THEN h[q].next ELSE Null
LoadPrev(h, q) == IF Live(h, q) THEN h[q].prev ELSE Null
LoadVal(h, q) == IF Live(h, q) THEN h[q].val ELSE Null

----------------------------------------------------------------------------
(* Topology primitives                                                     *)

\* node *insert(node *pos, node *cur): link cur before pos.
LinkBefore(h, pos, cur) ==
    LET h1 == StoreNext(h, cur, pos)
        pp == LoadPrev(h1, pos)
        h2 == StorePrev(h1, cur, pp)
        h3 == StoreNext(h2, LoadPrev(h2, pos), cur)
        h4 == StorePrev(h3, pos, cur)
    IN  [h |-> h4,
         ub |-> ~Live(h, cur) \/ ~Live(h, pos) \/ ~Live(h2, LoadPrev(h2, pos))]

\* node *erase(node *pos): unlink pos, clear its links, do not delete it.
Unlink(h, pos) ==
    LET a == LoadPrev(h, pos)
        h1 == StoreNext(h, a, LoadNext(h, pos))
        b == LoadNext(h1, pos)
        h2 == StorePrev(h1, b, LoadPrev(h1, pos))
        h3 == StorePrev(h2, pos, Null)
        h4 == StoreNext(h3, pos, Null)
    IN  [h |-> h4, ub |-> ~Live(h, pos) \/ ~Live(h, a) \/ ~Live(h1, b)]

----------------------------------------------------------------------------
(* Reading a chain                                                         *)

\* The nodes met by following next from p, sentinel or not, up to `fuel`
\* steps or the first null/dead pointer.
RECURSIVE Walk(_, _, _)
Walk(h, p, fuel) ==
    IF fuel = 0 \/ ~Live(h, p) THEN <<>>
    ELSE <<p>> \o Walk(h, h[p].next, fuel - 1)

RECURSIVE WalkBack(_, _, _)
WalkBack(h, p, fuel) ==
    IF fuel = 0 \/ ~Live(h, p) THEN <<>>
    ELSE <<p>> \o WalkBack(h, h[p].prev, fuel - 1)

Rev(s) == [k \in 1..Len(s) |-> s[Len(s) + 1 - k]]
Range(s) == {s[k] : k \in 1..Len(s)}
NoDup(s) == \A j, k \in 1..Len(s) : j # k => s[j] # s[k]

\* The chain of list l: every node from head following next.
Chain(h, ls, l) == Walk(h, ls[l].head, Len(h) + 1)
BackChain(h, ls, l) == WalkBack(h, ls[l].tail, Len(h) + 1)

\* The data nodes of a well-formed chain, and their values.
Inner(s) == IF Len(s) >= 2 THEN SubSeq(s, 2, Len(s) - 1) ELSE <<>>
DataNodes(h, ls, l) == Inner(Chain(h, ls, l))
Elems(h, ls, l) == LET d == DataNodes(h, ls, l) IN [k \in 1..Len(d) |-> h[d[k]].val]

----------------------------------------------------------------------------
(* Iterators                                                               *)

\* iterator(node *np, const list *o) / const_iterator(const node *, const list *)
Iter(p, o) == [p |-> p, owner |-> o]

\* iterator() : p(nullptr), owner(nullptr)
Unbound == Iter(Null, NoList)

NoRet == [p |-> Null, owner |-> NoList, v |-> Null, b |-> FALSE]
RetIter(i) == [p |-> i.p, owner |-> i.owner, v |-> Null, b |-> FALSE]
RetVal(v) == [p |-> Null, owner |-> NoList, v |-> v, b |-> FALSE]
RetBool(b) == [p |-> Null, owner |-> NoList, v |-> Null, b |-> b]

\* The outcome of an iterator member function.
ItOut(i, r, e) == [it |-> i, res |-> e, ret |-> r]

\* operator++ without the test for the tail sentinel.
IterIncNoEndCheck(h, ls, i) ==
    IF i.owner = NoList \/ i.p = Null THEN ItOut(i, NoRet, "invalid_iterator")
    ELSE IF ~Live(h, i.p) THEN ItOut(i, NoRet, "ub")
    ELSE LET j == Iter(h[i.p].next, i.owner) IN ItOut(j, RetIter(j), "ok")

\* iterator & operator++()
IterInc(h, ls, i) ==
    IF i.owner = NoList \/ i.p = Null THEN ItOut(i, NoRet, "invalid_iterator")
    ELSE IF i.p = ls[i.owner].tail THEN ItOut(i, NoRet, "invalid_iterator")
    ELSE IF ~Live(h, i.p) THEN ItOut(i, NoRet, "ub")
    ELSE LET j == Iter(h[i.p].next, i.owner) IN ItOut(j, RetIter(j), "ok")

\* iterator operator++(int)
IterIncPost(h, ls, i) ==
    IF i.owner = NoList \/ i.p = Null THEN ItOut(i, NoRet, "invalid_iterator")
    ELSE IF i.p = ls[i.owner].tail THEN ItOut(i, NoRet, "invalid_iterator")
    ELSE IF ~Live(h, i.p) THEN ItOut(i, NoRet, "ub")
    ELSE ItOut(Iter(h[i.p].next, i.owner), RetIter(i), "ok")

\* operator-- without the test for the head sentinel.
IterDecNoHeadCheck(h, ls, i) ==
    IF i.owner = NoList \/ i.p = Null THEN ItOut(i, NoRet, "invalid_iterator")
    ELSE IF i.p = ls[i.owner].tail
         THEN IF ls[i.owner].n = 0 THEN ItOut(i, NoRet, "invalid_iterator")
              ELSE IF ~Live(h, ls[i.owner].tail) THEN ItOut(i, NoRet, "ub")
              ELSE LET j == Iter(h[ls[i.owner].tail].prev, i.owner)
                   IN  ItOut(j, RetIter(j), "ok")
    ELSE IF ~Live(h, i.p) THEN ItOut(i, NoRet, "ub")
    ELSE LET j == Iter(h[i.p].prev, i.owner) IN ItOut(j, RetIter(j), "ok")

\* iterator & operator--()
IterDec(h, ls, i) ==
    IF i.owner = NoList \/ i.p = Null THEN ItOut(i, NoRet, "invalid_iterator")
    ELSE IF i.p = ls[i.owner].head THEN ItOut(i, NoRet, "invalid_iterator")
    ELSE IF i.p = ls[i.owner].tail
         THEN IF ls[i.owner].n = 0 THEN ItOut(i, NoRet, "invalid_iterator")
              ELSE IF ~Live(h, ls[i.owner].tail) THEN ItOut(i, NoRet, "ub")
              ELSE LET j == Iter(h[ls[i.owner].tail].prev, i.owner)
                   IN  ItOut(j, RetIter(j), "ok")
    ELSE IF ~Live(h, i.p) THEN ItOut(i, NoRet, "ub")
    ELSE LET j == Iter(h[i.p].prev, i.owner) IN ItOut(j, RetIter(j), "ok")

\* iterator operator--(int)
IterDecPost(h, ls, i) ==
    IF i.owner = NoList \/ i.p = Null THEN ItOut(i, NoRet, "invalid_iterator")
    ELSE IF i.p = ls[i.owner].head THEN ItOut(i, NoRet, "invalid_iterator")
    ELSE IF i.p = ls[i.owner].tail
         THEN IF ls[i.owner].n = 0 THEN ItOut(i, NoRet, "invalid_iterator")
              ELSE IF ~Live(h, ls[i.owner].tail) THEN ItOut(i, NoRet, "ub")
              ELSE ItOut(Iter(h[ls[i.owner].tail].prev, i.owner), RetIter(i), "ok")
    ELSE IF ~Live(h, i.p) THEN ItOut(i, NoRet, "ub")
    ELSE ItOut(Iter(h[i.p].prev, i.owner), RetIter(i), "ok")

\* T & operator *() const
IterDeref(h, ls, i) ==
    IF i.owner = NoList \/ i.p = Null \/ i.p = ls[i.owner].head \/ i.p = ls[i.owner].tail
    THEN ItOut(i, NoRet, "invalid_iterator")
    ELSE IF ~Live(h, i.p) THEN ItOut(i, NoRet, "ub")
    ELSE IF h[i.p].val = Null THEN ItOut(i, NoRet, "invalid_iterator")
    ELSE ItOut(i, RetVal(h[i.p].val), "ok")

\* T * operator ->() const
IterArrow(h, ls, i) ==
    IF i.owner = NoList \/ i.p = Null \/ i.p = ls[i.owner].head \/ i.p = ls[i.owner].tail
    THEN ItOut(i, NoRet, "invalid_iterator")
    ELSE IF ~Live(h, i.p) THEN ItOut(i, NoRet, "ub")
    ELSE IF h[i.p].val = Null THEN ItOut(i, NoRet, "invalid_iterator")
    ELSE ItOut(i, RetVal(h[i.p].val), "ok")

\* bool operator==(const iterator &rhs) const
IterEq(i, j) == i.p = j.p /\ i.owner = j.owner

\* iterator begin() / const_iterator cbegin() const
ListBegin(h, ls, l) == Iter(LoadNext(h, ls[l].head), l)

\* iterator end() / const_iterator cend() const
ListEnd(ls, l) == Iter(ls[l].tail, l)

\* const_iterator & operator++()
CIterInc(h, ls, i) ==
    IF i.owner = NoList \/ i.p = Null THEN ItOut(i, NoRet, "invalid_iterator")
    ELSE IF i.p = ls[i.owner].tail THEN ItOut(i, NoRet, "invalid_iterator")
    ELSE IF ~Live(h, i.p) THEN ItOut(i, NoRet, "ub")
    ELSE LET j == Iter(h[i.p].next, i.owner) IN ItOut(j, RetIter(j), "ok")

\* const_iterator operator++(int)
CIterIncPost(h, ls, i) ==
    IF i.owner = NoList \/ i.p = Null THEN ItOut(i, NoRet, "invalid_iterator")
    ELSE IF i.p = ls[i.owner].tail THEN ItOut(i, NoRet, "invalid_iterator")
    ELSE IF ~Live(h, i.p) THEN ItOut(i, NoRet, "ub")
    ELSE ItOut(Iter(h[i.p].next, i.owner), RetIter(i), "ok")

\* const_iterator & operator--()
CIterDec(h, ls, i) ==
    IF i.owner = NoList \/ i.p = Null THEN ItOut(i, NoRet, "invalid_iterator")
    ELSE IF i.p = ls[i.owner].head THEN ItOut(i, NoRet, "invalid_iterator")
    ELSE IF i.p = ls[i.owner].tail
         THEN IF ls[i.owner].n = 0 THEN ItOut(i, NoRet, "invalid_iterator")
              ELSE IF ~Live(h, ls[i.owner].tail) THEN ItOut(i, NoRet, "ub")
              ELSE LET j == Iter(h[ls[i.owner].tail].prev, i.owner)
                   IN  ItOut(j, RetIter(j), "ok")
    ELSE IF ~Live(h, i.p) THEN ItOut(i, NoRet, "ub")
    ELSE LET j == Iter(h[i.p].prev, i.owner) IN ItOut(j, RetIter(j), "ok")

\* const_iterator operator--(int)
CIterDecPost(h, ls, i) ==
    IF i.owner = NoList \/ i.p = Null THEN ItOut(i, NoRet, "invalid_iterator")
    ELSE IF i.p = ls[i.owner].head THEN ItOut(i, NoRet, "invalid_iterator")
    ELSE IF i.p = ls[i.owner].tail
         THEN IF ls[i.owner].n = 0 THEN ItOut(i, NoRet, "invalid_iterator")
              ELSE IF ~Live(h, ls[i.owner].tail) THEN ItOut(i, NoRet, "ub")
              ELSE ItOut(Iter(h[ls[i.owner].tail].prev, i.owner), RetIter(i), "ok")
    ELSE IF ~Live(h, i.p) THEN ItOut(i, NoRet, "ub")
    ELSE ItOut(Iter(h[i.p].prev, i.owner), RetIter(i), "ok")

\* const T & operator *() const
CIterDeref(h, ls, i) ==
    IF i.owner = NoList \/ i.p = Null \/ i.p = ls[i.owner].head \/ i.p = ls[i.owner].tail
    THEN ItOut(i, NoRet, "invalid_iterator")
    ELSE IF ~Live(h, i.p) THEN ItOut(i, NoRet, "ub")
    ELSE IF h[i.p].val = Null THEN ItOut(i, NoRet, "invalid_iterator")
    ELSE ItOut(i, RetVal(h[i.p].val), "ok")

\* const T * operator ->() const
CIterArrow(h, ls, i) ==
    IF i.owner = NoList \/ i.p = Null \/ i.p = ls[i.owner].head \/ i.p = ls[i.owner].tail
    THEN ItOut(i, NoRet, "invalid_iterator")
    ELSE IF ~Live(h, i.p) THEN ItOut(i, NoRet, "ub")
    ELSE IF h[i.p].val = Null THEN ItOut(i, NoRet, "invalid_iterator")
    ELSE ItOut(i, RetVal(h[i.p].val), "ok")

\* The member function named f of class iterator, and of const_iterator.
IterCall(f, h, ls, i) ==
    CASE f = "++pre"  -> IterInc(h, ls, i)
      [] f = "++post" -> IterIncPost(h, ls, i)
      [] f = "--pre"  -> IterDec(h, ls, i)
      [] f = "--post" -> IterDecPost(h, ls, i)
      [] f = "*"      -> IterDeref(h, ls, i)
      [] f = "->"     -> IterArrow(h, ls, i)

CIterCall(f, h, ls, i) ==
    CASE f = "++pre"  -> CIterInc(h, ls, i)
      [] f = "++post" -> CIterIncPost(h, ls, i)
      [] f = "--pre"  -> CIterDec(h, ls, i)
      [] f = "--post" -> CIterDecPost(h, ls, i)
      [] f = "*"      -> CIterDeref(h, ls, i)
      [] f = "->"     -> CIterArrow(h, ls, i)

IterFns == {"++pre", "++post", "--pre", "--post", "*", "->"}

----------------------------------------------------------------------------
(* List member functions.  Each yields the heap and the list objects after *)
(* the call, the outcome (ok, an exception, ub) and the returned value.    *)
(* Under ub the heap shown is the one left when every undefined load or    *)
(* store is skipped.                                                       *)

Out(h, ls, r, e) == [heap |-> h, lists |-> ls, ret |-> r, res |-> e]
Status(ub) == IF ub THEN "ub" ELSE "ok"
SetN(ls, l, k) == [ls EXCEPT ![l].n = k]

\* bool empty() const / size_t size() const
Empty(ls, l) == ls[l].n = 0
Size(ls, l) == ls[l].n

\* const T & front() const
Front(h, ls, l) ==
    IF ls[l].n = 0 THEN Out(h, ls, NoRet, "container_is_empty")
    ELSE LET v == LoadVal(h, LoadNext(h, ls[l].head))
         IN  Out(h, ls, RetVal(v), Status(v = Null))

\* const T & back() const
Back(h, ls, l) ==
    IF ls[l].n = 0 THEN Out(h, ls, NoRet, "container_is_empty")
    ELSE LET v == LoadVal(h, LoadPrev(h, ls[l].tail))
         IN  Out(h, ls, RetVal(v), Status(v = Null))

\* void push_back(const T &value); cur is the address operator new returns
PushBack(h, ls, l, v, cur) ==
    LET h1 == [h EXCEPT ![cur] = DataNode(v)]
        r == LinkBefore(h1, ls[l].tail, cur)
    IN  Out(r.h, SetN(ls, l, ls[l].n + 1), NoRet, Status(r.ub))

\* push_front without ++n.
PushFrontNoCount(h, ls, l, v, cur) ==
    LET h1 == [h EXCEPT ![cur] = DataNode(v)]
        r == LinkBefore(h1, LoadNext(h1, ls[l].head), cur)
    IN  Out(r.h, ls, NoRet, Status(r.ub))

\* void push_front(const T &value)
PushFront(h, ls, l, v, cur) ==
    LET h1 == [h EXCEPT ![cur] = DataNode(v)]
        r == LinkBefore(h1, LoadNext(h1, ls[l].head), cur)
    IN  Out(r.h, SetN(ls, l, ls[l].n + 1), NoRet, Status(r.ub))

\* void pop_back()
PopBack(h, ls, l) ==
    IF ls[l].n = 0 THEN Out(h, ls, NoRet, "container_is_empty")
    ELSE LET lst == LoadPrev(h, ls[l].tail)
             u == Unlink(h, lst)
             d == Delete(u.h, lst)
         IN  Out(d.h, SetN(ls, l, ls[l].n - 1), NoRet, Status(u.ub \/ d.ub))

\* pop_front that removes tail->prev instead of head->next.
PopFrontTakesLast(h, ls, l) ==
    IF ls[l].n = 0 THEN Out(h, ls, NoRet, "container_is_empty")
    ELSE LET first == LoadPrev(h, ls[l].tail)
             u == Unlink(h, first)
             d == Delete(u.h, first)
         IN  Out(d.h, SetN(ls, l, ls[l].n - 1), NoRet, Status(u.ub \/ d.ub))

\* void pop_front()
PopFront(h, ls, l) ==
    IF ls[l].n = 0 THEN Out(h, ls, NoRet, "container_is_empty")
    ELSE LET first == LoadNext(h, ls[l].head)
             u == Unlink(h, first)
             d == Delete(u.h, first)
         IN  Out(d.h, SetN(ls, l, ls[l].n - 1), NoRet, Status(u.ub \/ d.ub))

\* The while loop of clear(): delete every node from cur up to tail.
RECURSIVE ClearLoop(_, _, _, _)
ClearLoop(h, cur, tail, fuel) ==
    IF cur = tail THEN [h |-> h, ub |-> FALSE]
    ELSE IF fuel = 0 \/ ~Live(h, cur) THEN [h |-> h, ub |-> TRUE]
    ELSE LET nx == h[cur].next
             h1 == StoreNext(StorePrev(h, cur, Null), cur, Null)
             d == Delete(h1, cur)
             r == ClearLoop(d.h, nx, tail, fuel - 1)
         IN  [h |-> r.h, ub |-> d.ub \/ r.ub]

\* virtual void clear()
Clear(h, ls, l) ==
    LET r == ClearLoop(h, LoadNext(h, ls[l].head), ls[l].tail, Len(h) + 1)
        h1 == StoreNext(r.h, ls[l].head, ls[l].tail)
        h2 == StorePrev(h1, ls[l].tail, ls[l].head)
    IN  Out(h2, SetN(ls, l, 0), NoRet,
            Status(r.ub \/ ~Live(r.h, ls[l].head) \/ ~Live(r.h, ls[l].tail)))

\* insert without the test of pos.owner.
InsertNoOwnerCheck(h, ls, l, pos, v, cur) ==
    IF pos.p = Null \/ cur = Null THEN Out(h, ls, NoRet, "invalid_iterator")
    ELSE LET h1 == [h EXCEPT ![cur] = DataNode(v)]
             r == LinkBefore(h1, pos.p, cur)
         IN  Out(r.h, SetN(ls, l, ls[l].n + 1), RetIter(Iter(cur, l)), Status(r.ub))

\* virtual iterator insert(iterator pos, const T &value)
Insert(h, ls, l, pos, v, cur) ==
    IF pos.owner # l \/ pos.p = Null THEN Out(h, ls, NoRet, "invalid_iterator")
    ELSE LET h1 == [h EXCEPT ![cur] = DataNode(v)]
             r == LinkBefore(h1, pos.p, cur)
         IN  Out(r.h, SetN(ls, l, ls[l].n + 1), RetIter(Iter(cur, l)), Status(r.ub))

\* erase that decrements n before it validates pos.
EraseCountsFirst(h, ls, l, pos) ==
    IF ls[l].n = 0 THEN Out(h, ls, NoRet, "container_is_empty")
    ELSE IF pos.owner # l \/ pos.p = Null \/ pos.p = ls[l].tail
    THEN Out(h, SetN(ls, l, ls[l].n - 1), NoRet, "invalid_iterator")
    ELSE LET nx == LoadNext(h, pos.p)
             u == Unlink(h, pos.p)
             d == Delete(u.h, pos.p)
         IN  Out(d.h, SetN(ls, l, ls[l].n - 1), RetIter(Iter(nx, l)), Status(u.ub \/ d.ub))

\* erase without --n.
EraseKeepsCount(h, ls, l, pos) ==
    IF ls[l].n = 0 THEN Out(h, ls, NoRet, "container_is_empty")
    ELSE IF pos.owner # l \/ pos.p = Null \/ pos.p = ls[l].tail
    THEN Out(h, ls, NoRet, "invalid_iterator")
    ELSE LET nx == LoadNext(h, pos.p)
             u == Unlink(h, pos.p)
             d == Delete(u.h, pos.p)
         IN  Out(d.h, ls, RetIter(Iter(nx, l)), Status(u.ub \/ d.ub))

\* virtual iterator erase(iterator pos)
Erase(h, ls, l, pos) ==
    IF ls[l].n = 0 THEN Out(h, ls, NoRet, "container_is_empty")
    ELSE IF pos.owner # l \/ pos.p = Null \/ pos.p = ls[l].tail
    THEN Out(h, ls, NoRet, "invalid_iterator")
    ELSE LET nx == LoadNext(h, pos.p)
             u == Unlink(h, pos.p)
             d == Delete(u.h, pos.p)
         IN  Out(d.h, SetN(ls, l, ls[l].n - 1), RetIter(Iter(nx, l)), Status(u.ub \/ d.ub))

----------------------------------------------------------------------------
(* Structural algorithms                                                   *)

LoopOut(h, ls, bi, e) == [h |-> h, ls |-> ls, bi |-> bi, res |-> e]
Worse(e, f) == IF e = "ok" THEN f ELSE e

\* The first loop of merge taking from other on a tie: !(*ai < *bi).
RECURSIVE MergeScanTiesFromOther(_, _, _, _, _, _, _)
MergeScanTiesFromOther(h, ls, l, o, ai, bi, fuel) ==
    IF ai = ls[l].tail \/ bi = ls[o].tail THEN [h |-> h, ls |-> ls, bi |-> bi, res |-> "ok"]
    ELSE IF fuel = 0 THEN [h |-> h, ls |-> ls, bi |-> bi, res |-> "hang"]
    ELSE IF LoadVal(h, ai) = Null \/ LoadVal(h, bi) = Null
    THEN [h |-> h, ls |-> ls, bi |-> bi, res |-> "ub"]
    ELSE IF ~(h[ai].val < h[bi].val)
    THEN LET nextb == h[bi].next
             u == Unlink(h, bi)
             k == LinkBefore(u.h, ai, bi)
             ls1 == [ls EXCEPT ![l].n = @ + 1, ![o].n = @ - 1]
         IN  MergeScanTiesFromOther(k.h, ls1, l, o, ai, nextb, fuel - 1)
    ELSE MergeScanTiesFromOther(h, ls, l, o, h[ai].next, bi, fuel - 1)

\* The first loop of merge without ai = ai->next.
RECURSIVE MergeScanNoAdvance(_, _, _, _, _, _, _)
MergeScanNoAdvance(h, ls, l, o, ai, bi, fuel) ==
    IF ai = ls[l].tail \/ bi = ls[o].tail THEN [h |-> h, ls |-> ls, bi |-> bi, res |-> "ok"]
    ELSE IF fuel = 0 THEN [h |-> h, ls |-> ls, bi |-> bi, res |-> "hang"]
    ELSE IF LoadVal(h, ai) = Null \/ LoadVal(h, bi) = Null
    THEN [h |-> h, ls |-> ls, bi |-> bi, res |-> "ub"]
    ELSE IF h[bi].val < h[ai].val
    THEN LET nextb == h[bi].next
             u == Unlink(h, bi)
             k == LinkBefore(u.h, ai, bi)
             ls1 == [ls EXCEPT ![l].n = @ + 1, ![o].n = @ - 1]
         IN  MergeScanNoAdvance(k.h, ls1, l, o, ai, nextb, fuel - 1)
    ELSE MergeScanNoAdvance(h, ls, l, o, ai, bi, fuel - 1)

\* merge: while (ai != tail && bi != other.tail) { ... }
RECURSIVE MergeScan(_, _, _, _, _, _, _)
MergeScan(h, ls, l, o, ai, bi, fuel) ==
    IF ai = ls[l].tail \/ bi = ls[o].tail THEN LoopOut(h, ls, bi, "ok")
    ELSE IF fuel = 0 THEN LoopOut(h, ls, bi, "hang")
    ELSE IF LoadVal(h, ai) = Null \/ LoadVal(h, bi) = Null THEN LoopOut(h, ls, bi, "ub")
    ELSE IF h[bi].val < h[ai].val
    THEN LET nextb == h[bi].next
             u == Unlink(h, bi)
             k == LinkBefore(u.h, ai, bi)
             ls1 == [ls EXCEPT ![l].n = @ + 1, ![o].n = @ - 1]
             r == MergeScan(k.h, ls1, l, o, ai, nextb, fuel - 1)
         IN  LoopOut(r.h, r.ls, r.bi, Worse(Status(u.ub \/ k.ub), r.res))
    ELSE MergeScan(h, ls, l, o, h[ai].next, bi, fuel - 1)

\* merge: while (bi != other.tail) { ... }
RECURSIVE MergeAppend(_, _, _, _, _, _)
MergeAppend(h, ls, l, o, bi, fuel) ==
    IF bi = ls[o].tail THEN LoopOut(h, ls, bi, "ok")
    ELSE IF fuel = 0 THEN LoopOut(h, ls, bi, "hang")
    ELSE IF ~Live(h, bi) THEN LoopOut(h, ls, bi, "ub")
    ELSE LET nextb == h[bi].next
             u == Unlink(h, bi)
             k == LinkBefore(u.h, ls[l].tail, bi)
             ls1 == [ls EXCEPT ![l].n = @ + 1, ![o].n = @ - 1]
             r == MergeAppend(k.h, ls1, l, o, nextb, fuel - 1)
         IN  LoopOut(r.h, r.ls, r.bi, Worse(Status(u.ub \/ k.ub), r.res))

\* void merge(list &other)
Merge(h, ls, l, o) ==
    IF o = l THEN Out(h, ls, NoRet, "ok")
    ELSE LET s == MergeScan(h, ls, l, o, LoadNext(h, ls[l].head),
                            LoadNext(h, ls[o].head), 2 * Len(h))
             a == IF s.res = "ok"
                  THEN MergeAppend(s.h, s.ls, l, o, s.bi, Len(h) + 1)
                  ELSE s
             h1 == StoreNext(a.h, ls[o].head, ls[o].tail)
             h2 == StorePrev(h1, ls[o].tail, ls[o].head)
         IN  IF a.res = "ok"
             THEN Out(h2, a.ls, NoRet,
                      Status(~Live(a.h, ls[o].head) \/ ~Live(a.h, ls[o].tail)))
             ELSE Out(a.h, a.ls, NoRet, a.res)

\* reverse: while (cur) { swap cur->next and cur->prev; cur = cur->prev; }
RECURSIVE ReverseLoop(_, _, _)
ReverseLoop(h, cur, fuel) ==
    IF cur = Null THEN [h |-> h, res |-> "ok"]
    ELSE IF fuel = 0 THEN [h |-> h, res |-> "hang"]
    ELSE IF ~Live(h, cur) THEN [h |-> h, res |-> "ub"]
    ELSE LET tmp == h[cur].next
             h1 == StoreNext(h, cur, h[cur].prev)
             h2 == StorePrev(h1, cur, tmp)
         IN  ReverseLoop(h2, h2[cur].prev, fuel - 1)

\* reverse without the swap of head and tail.
ReverseNoSwap(h, ls, l) ==
    LET r == ReverseLoop(h, ls[l].head, Len(h) + 1)
    IN  Out(r.h, ls, NoRet, r.res)

\* void reverse()
Reverse(h, ls, l) ==
    LET r == ReverseLoop(h, ls[l].head, Len(h) + 1)
        ls1 == [ls EXCEPT ![l].head = ls[l].tail, ![l].tail = ls[l].head]
    IN  IF r.res = "ok" THEN Out(r.h, ls1, NoRet, "ok") ELSE Out(r.h, ls, NoRet, r.res)

\* The inner loop of unique without --n.
RECURSIVE UniqueRunNoCount(_, _, _, _, _, _)
UniqueRunNoCount(h, ls, l, cur, nx, fuel) ==
    IF nx = ls[l].tail THEN [h |-> h, ls |-> ls, bi |-> nx, res |-> "ok"]
    ELSE IF fuel = 0 THEN [h |-> h, ls |-> ls, bi |-> nx, res |-> "hang"]
    ELSE IF LoadVal(h, cur) = Null \/ LoadVal(h, nx) = Null
    THEN [h |-> h, ls |-> ls, bi |-> nx, res |-> "ub"]
    ELSE IF h[cur].val # h[nx].val THEN [h |-> h, ls |-> ls, bi |-> nx, res |-> "ok"]
    ELSE LET nn == h[nx].next
             u == Unlink(h, nx)
             d == Delete(u.h, nx)
         IN  UniqueRunNoCount(d.h, ls, l, cur, nn, fuel - 1)

\* unique: while (nx != tail && *(cur->val) == *(nx->val)) { ... }
RECURSIVE UniqueRun(_, _, _, _, _, _)
UniqueRun(h, ls, l, cur, nx, fuel) ==
    IF nx = ls[l].tail THEN LoopOut(h, ls, nx, "ok")
    ELSE IF fuel = 0 THEN LoopOut(h, ls, nx, "hang")
    ELSE IF LoadVal(h, cur) = Null \/ LoadVal(h, nx) = Null THEN LoopOut(h, ls, nx, "ub")
    ELSE IF h[cur].val # h[nx].val THEN LoopOut(h, ls, nx, "ok")
    ELSE LET nn == h[nx].next
             u == Unlink(h, nx)
             d == Delete(u.h, nx)
             r == UniqueRun(d.h, SetN(ls, l, ls[l].n - 1), l, cur, nn, fuel - 1)
         IN  LoopOut(r.h, r.ls, r.bi, Worse(Status(u.ub \/ d.ub), r.res))

\* unique: while (cur != tail) { nx = cur->next; ...; cur = nx; }
RECURSIVE UniqueLoop(_, _, _, _, _)
UniqueLoop(h, ls, l, cur, fuel) ==
    IF cur = ls[l].tail THEN LoopOut(h, ls, cur, "ok")
    ELSE IF fuel = 0 THEN LoopOut(h, ls, cur, "hang")
    ELSE IF ~Live(h, cur) THEN LoopOut(h, ls, cur, "ub")
    ELSE LET r == UniqueRun(h, ls, l, cur, h[cur].next, Len(h) + 1)
         IN  IF r.res = "ok" THEN UniqueLoop(r.h, r.ls, l, r.bi, fuel - 1) ELSE r

\* void unique()
Unique(h, ls, l) ==
    IF ls[l].n \in {0, 1} THEN Out(h, ls, NoRet, "ok")
    ELSE LET r == UniqueLoop(h, ls, l, LoadNext(h, ls[l].head), Len(h) + 1)
         IN  Out(r.h, r.ls, NoRet, r.res)

\* sort: for (cur = head->next; cur != tail; cur = cur->next) arr[i++] = cur;
RECURSIVE Collect(_, _, _, _)
Collect(h, cur, tail, fuel) ==
    IF cur = tail \/ fuel = 0 \/ ~Live(h, cur) THEN <<>>
    ELSE <<cur>> \o Collect(h, h[cur].next, tail, fuel - 1)

\* sjtu::sort(arr, arr + n, cmp): any arrangement of arr that is ascending
\* under cmp (algorithm.hpp promises no more, and is silent on stability).
SortedArrangements(h, arr) ==
    {a \in [1..Len(arr) -> Range(arr)] :
        /\ \A j, k \in 1..Len(arr) : j # k => a[j] # a[k]
        /\ \A k \in 1..(Len(arr) - 1) : ~(h[a[k + 1]].val < h[a[k]].val)}

\* The relink pass without arr[k+1]->prev = arr[k].
RECURSIVE RelinkFromNoPrev(_, _, _)
RelinkFromNoPrev(h, arr, k) ==
    IF k + 1 > Len(arr) THEN h
    ELSE RelinkFromNoPrev(StoreNext(h, arr[k], arr[k + 1]), arr, k + 1)

\* sort: the relink pass over arr.
RECURSIVE RelinkFrom(_, _, _)
RelinkFrom(h, arr, k) ==
    IF k + 1 > Len(arr) THEN h
    ELSE RelinkFrom(StorePrev(StoreNext(h, arr[k], arr[k + 1]), arr[k + 1], arr[k]), arr, k + 1)

Relink(h, ls, l, arr) ==
    LET h1 == StorePrev(StoreNext(h, ls[l].head, arr[1]), arr[1], ls[l].head)
        h2 == RelinkFrom(h1, arr, 1)
        lst == arr[Len(arr)]
    IN  StorePrev(StoreNext(h2, lst, ls[l].tail), ls[l].tail, lst)

\* void sort(): the outcomes, one per arrangement sjtu::sort may produce.
\* Filling or reading arr beyond its n slots is undefined.
Sort(h, ls, l) ==
    IF ls[l].n \in {0, 1} THEN {Out(h, ls, NoRet, "ok")}
    ELSE LET arr == Collect(h, LoadNext(h, ls[l].head), ls[l].tail, Len(h) + 1)
         IN  IF Len(arr) # ls[l].n \/ \E k \in 1..Len(arr) : h[arr[k]].val = Null
             THEN {Out(h, ls, NoRet, "ub")}
             ELSE {Out(Relink(h, ls, l, a), ls, NoRet, "ok") : a \in SortedArrangements(h, arr)}

----------------------------------------------------------------------------
(* Construction, copy, destruction                                         *)

\* A list object that is not constructed, or that ~list() has run on.
NoListObj == [head |-> Null, tail |-> Null, n |-> 0]
Constructed(ls, l) == ls[l].head # Null

\* The number of nodes operator new can still hand out.
Room(h) == Cardinality({k \in Addrs(h) : h[k].st = "unused"})

\* list() : head(new node()), tail(new node()), n(0)
Construct(h, ls, l) ==
    LET hd == Fresh(h)
        h1 == [h EXCEPT ![hd] = SentinelNode]
        tl == Fresh(h1)
        h2 == [h1 EXCEPT ![tl] = SentinelNode]
        h3 == StorePrev(StoreNext(h2, hd, tl), tl, hd)
    IN  [heap |-> h3, lists |-> [ls EXCEPT ![l] = [head |-> hd, tail |-> tl, n |-> 0]]]

\* for (const_iterator it = other.cbegin(); it != other.cend(); ++it)
\*     push_back(*it);
\* c is the const_iterator; an exception of * or ++ leaves the loop.
RECURSIVE CopyLoop(_, _, _, _, _, _)
CopyLoop(h, ls, l, o, c, fuel) ==
    IF IterEq(c, ListEnd(ls, o)) THEN Out(h, ls, NoRet, "ok")
    ELSE IF fuel = 0 THEN Out(h, ls, NoRet, "hang")
    ELSE LET d == CIterDeref(h, ls, c)
         IN  IF d.res # "ok" THEN Out(h, ls, NoRet, d.res)
             ELSE IF Fresh(h) = Null THEN Out(h, ls, NoRet, "bad_alloc")
             ELSE LET pb == PushBack(h, ls, l, d.ret.v, Fresh(h))
                      inc == CIterInc(pb.heap, pb.lists, c)
                  IN  IF pb.res # "ok" THEN pb
                      ELSE IF inc.res # "ok" THEN Out(pb.heap, pb.lists, NoRet, inc.res)
                      ELSE CopyLoop(pb.heap, pb.lists, l, o, inc.it, fuel - 1)

\* virtual ~list()
Destroy(h, ls, l) ==
    LET c == Clear(h, ls, l)
        d1 == Delete(c.heap, ls[l].head)
        d2 == Delete(d1.h, ls[l].tail)
    IN  Out(d2.h, [c.lists EXCEPT ![l].head = Null, ![l].tail = Null], NoRet,
            Worse(c.res, Status(d1.ub \/ d2.ub)))

\* list(const list &other) : list(); an exception that leaves the body
\* runs ~list(), the delegated constructor having completed.
CopyConstruct(h, ls, l, o) ==
    LET c == Construct(h, ls, l)
        r == CopyLoop(c.heap, c.lists, l, o, ListBegin(c.heap, c.lists, o), Len(h) + 1)
    IN  IF r.res \in {"ok", "ub", "hang"} THEN r
        ELSE Out(Destroy(r.heap, r.lists, l).heap, Destroy(r.heap, r.lists, l).lists,
                 NoRet, r.res)

\* operator= without clear().
AssignNoClear(h, ls, l, o) ==
    IF l = o THEN Out(h, ls, NoRet, "ok")
    ELSE CopyLoop(h, ls, l, o, ListBegin(h, ls, o), Len(h) + 1)

\* list &operator=(const list &other)
Assign(h, ls, l, o) ==
    IF l = o THEN Out(h, ls, NoRet, "ok")
    ELSE LET c == Clear(h, ls, l)
         IN  IF c.res # "ok" THEN c
             ELSE CopyLoop(c.heap, c.lists, l, o, ListBegin(c.heap, c.lists, o), Len(h) + 1)

----------------------------------------------------------------------------
(* The state machine                                                       *)

\* The record of a call: the member function, the list it was called on,
\* the class of the iterator operand ("iterator", "const_iterator" or
\* "none"), the operand before and after the call, and the value passed.
\* stale: the operand held the address of storage that is not live.
Call(op, l, cls, arg, after, v) ==
    [op |-> op, l |-> l, cls |-> cls, arg |-> arg, after |-> after, v |-> v,
     stale |-> (cls # "none" /\ arg.p # Null /\ ~Live(heap, arg.p))]

NoCall == Call("none", NoList, "none", Unbound, Unbound, Null)
ListCall(op, l, v) == Call(op, l, "none", Unbound, Unbound, v)

\* What the abstract sequence says the last call must return.
Want(e, v) == [res |-> e, v |-> v]
NoWant == Want("ok", Null)

\* What the caller remembers of an earlier call on list l: the heap, the
\* list objects and the iterator as they were when it was made, the other
\* list involved and the value passed; tag tells how far the calls that
\* follow it have come.
Snap(tag, l, o, h, ls, i, v) ==
    [tag |-> tag, l |-> l, o |-> o, heap |-> h, lists |-> ls, it |-> i, v |-> v]
NoSnap == Snap("none", NoList, NoList, <<>>, <<>>, Unbound, Null)

\* list() : head(new node()), tail(new node()), n(0), for A and then B,
\* in a heap with room for `room` data nodes.
EmptyHeap(room) ==
    [k \in 1..(room + 4) |->
        IF k = 1 THEN [SentinelNode EXCEPT !.next = 2]
        ELSE IF k = 2 THEN [SentinelNode EXCEPT !.prev = 1]
        ELSE IF k = 3 THEN [SentinelNode EXCEPT !.next = 4]
        ELSE IF k = 4 THEN [SentinelNode EXCEPT !.prev = 3]
        ELSE UnusedNode]

EmptyLists ==
    [l \in Lists |->
        IF l = "A" THEN [head |-> 1, tail |-> 2, n |-> 0]
        ELSE [head |-> 3, tail |-> 4, n |-> 0]]

InitWith(h, ls) ==
    /\ heap = h
    /\ lists = ls
    /\ it = Unbound
    /\ res = "ok"
    /\ ret = NoRet
    /\ last = NoCall
    /\ pushes = [l \in Lists |-> 0]
    /\ pops = [l \in Lists |-> 0]
    /\ abs = [l \in Lists |-> <<>>]
    /\ want = NoWant
    /\ snap = NoSnap

\* The state after l.push_back(q[1]); ...; l.push_back(q[Len(q)]).
RECURSIVE Filled(_, _, _, _)
Filled(h, ls, l, q) ==
    IF q = <<>> THEN [heap |-> h, lists |-> ls]
    ELSE LET o == PushBack(h, ls, l, Head(q), Fresh(h))
         IN  Filled(o.heap, o.lists, l, Tail(q))

Ascending(q) == \A k \in 1..(Len(q) - 1) : q[k] <= q[k + 1]
SeqsUpTo(k) == UNION {[1..j -> Values] : j \in 0..k}

\* Two lists filled by push_back with ascending values, as merge expects.
InitMerge ==
    \E qa, qb \in {q \in SeqsUpTo(MaxLen) : Ascending(q)} :
        LET fa == Filled(EmptyHeap(2 * MaxLen), EmptyLists, "A", qa)
            fb == Filled(fa.heap, fa.lists, "B", qb)
        IN  InitWith(fb.heap, fb.lists)

\* A filled by push_back with up to lenA values, B with up to lenB, in a
\* heap with room for `room` more data nodes.
InitFilled(lenA, lenB, room) ==
    \E qa \in SeqsUpTo(lenA), qb \in SeqsUpTo(lenB) :
        LET fa == Filled(EmptyHeap(lenA + lenB + room), EmptyLists, "A", qa)
            fb == Filled(fa.heap, fa.lists, "B", qb)
        IN  InitWith(fb.heap, fb.lists)

Init == InitWith(EmptyHeap(MaxData), EmptyLists)
InitPP == InitWith(EmptyHeap(MaxPush), EmptyLists)

\* The representation of list l is intact: following next from head gives
\* a path without repetition that ends at tail, following prev from tail
\* gives the same path backwards, exactly the sentinels hold no value, and
\* n counts the nodes in between.
WellFormed(h, ls, l) ==
    LET c == Chain(h, ls, l)
    IN  /\ Len(c) >= 2
        /\ c[1] = ls[l].head
        /\ c[Len(c)] = ls[l].tail
        /\ NoDup(c)
        /\ BackChain(h, ls, l) = Rev(c)
        /\ \A k \in 1..Len(c) : (h[c[k]].val = Null) <=> (k \in {1, Len(c)})
        /\ ls[l].n = Len(c) - 2

\* Every list object that is alive is intact.
Intact == \A l \in Lists : Constructed(lists, l) => WellFormed(heap, lists, l)

\* The calls that may store into the heap or into a list object.
Mutators ==
    {"push_back", "push_front", "pop_back", "pop_front", "clear", "insert", "erase",
     "merge", "reverse", "unique", "sort", "copy", "=", "~list"}

\* Nothing is modelled after undefined behaviour, after a loop that never
\* ends, or after a call that left a list's representation broken: the
\* caller goes on only from a state that is Running.  (Only a mutator can
\* break a representation, so Intact is looked at after those alone.)
Running == res \notin {"ub", "hang"} /\ (last.op \in Mutators => Intact)

\* The caller is between calls.
Idle == last.op = "none"

\* A list member function is called and returns or throws.  Under ub the
\* program either continues with the undefined accesses skipped, or faults
\* before any store.
Commit(o, c) ==
    /\ Idle
    /\ res' = o.res
    /\ last' = c
    /\ it' = it
    /\ \/ heap' = o.heap /\ lists' = o.lists /\ ret' = o.ret
       \/ o.res = "ub" /\ heap' = heap /\ lists' = lists /\ ret' = NoRet

DoFront(l) == Commit(Front(heap, lists, l), ListCall("front", l, Null))
DoBack(l) == Commit(Back(heap, lists, l), ListCall("back", l, Null))

DoPushBack(l, v) ==
    /\ Fresh(heap) # Null
    /\ Commit(PushBack(heap, lists, l, v, Fresh(heap)), ListCall("push_back", l, v))

DoPushFront(l, v) ==
    /\ Fresh(heap) # Null
    /\ Commit(PushFront(heap, lists, l, v, Fresh(heap)), ListCall("push_front", l, v))

DoPopBack(l) == Commit(PopBack(heap, lists, l), ListCall("pop_back", l, Null))
DoPopFront(l) == Commit(PopFront(heap, lists, l), ListCall("pop_front", l, Null))
DoClear(l) == Commit(Clear(heap, lists, l), ListCall("clear", l, Null))

\* l.insert(it, v)
DoInsert(l, v) ==
    /\ (it.owner = l /\ it.p # Null) => Fresh(heap) # Null
    /\ Commit(Insert(heap, lists, l, it, v, Fresh(heap)),
              Call("insert", l, "iterator", it, it, v))

\* l.erase(it)
DoErase(l) ==
    Commit(Erase(heap, lists, l, it), Call("erase", l, "iterator", it, it, Null))

\* l.merge(o)
DoMerge(l, o) ==
    Commit(Merge(heap, lists, l, o), Call("merge", l, "none", Iter(Null, o), Unbound, Null))

DoReverse(l) == Commit(Reverse(heap, lists, l), ListCall("reverse", l, Null))
DoUnique(l) == Commit(Unique(heap, lists, l), ListCall("unique", l, Null))
DoSort(l) == \E o \in Sort(heap, lists, l) : Commit(o, ListCall("sort", l, Null))

\* it = l.begin()
DoBegin(l) ==
    /\ Idle
    /\ it' = ListBegin(heap, lists, l)
    /\ res' = "ok"
    /\ ret' = RetIter(ListBegin(heap, lists, l))
    /\ last' = Call("begin", l, "iterator", it, ListBegin(heap, lists, l), Null)
    /\ UNCHANGED <<heap, lists>>

\* it = l.end()
DoEnd(l) ==
    /\ Idle
    /\ it' = ListEnd(lists, l)
    /\ res' = "ok"
    /\ ret' = RetIter(ListEnd(lists, l))
    /\ last' = Call("end", l, "iterator", it, ListEnd(lists, l), Null)
    /\ UNCHANGED <<heap, lists>>

\* ++it, it++, --it, it--, *it, it->
DoIter(f) ==
    LET o == IterCall(f, heap, lists, it)
    IN  /\ Idle
        /\ it' = o.it
        /\ res' = o.res
        /\ ret' = o.ret
        /\ last' = Call(f, NoList, "iterator", it, o.it, Null)
        /\ UNCHANGED <<heap, lists>>

\* const_iterator c(it); then ++c, c++, --c, c--, *c, c->.  The copy c is
\* gone when the caller goes on; last.after shows it after the call.
DoCIter(f) ==
    LET o == CIterCall(f, heap, lists, Iter(it.p, it.owner))
    IN  /\ Idle
        /\ res' = o.res
        /\ ret' = o.ret
        /\ last' = Call(f, NoList, "const_iterator", it, o.it, Null)
        /\ UNCHANGED <<heap, lists, it>>

\* it == l.begin(), it == l.end()
DoEqBegin(l) ==
    /\ Idle
    /\ res' = "ok"
    /\ ret' = RetBool(IterEq(it, ListBegin(heap, lists, l)))
    /\ last' = Call("==begin", l, "iterator", it, it, Null)
    /\ UNCHANGED <<heap, lists, it>>

DoEqEnd(l) ==
    /\ Idle
    /\ res' = "ok"
    /\ ret' = RetBool(IterEq(it, ListEnd(lists, l)))
    /\ last' = Call("==end", l, "iterator", it, it, Null)
    /\ UNCHANGED <<heap, lists, it>>

\* The caller keeps the iterator that insert or erase returned: it = ret.
DoTake ==
    /\ last.op \in {"insert", "erase"}
    /\ res = "ok"
    /\ Running
    /\ it' = Iter(ret.p, ret.owner)
    /\ res' = "ok"
    /\ ret' = NoRet
    /\ last' = NoCall
    /\ UNCHANGED <<heap, lists>>

\* The caller goes on to its next call (after catching what was thrown).
DoResume ==
    /\ last.op # "none"
    /\ Running
    /\ res' = "ok"
    /\ ret' = NoRet
    /\ last' = NoCall
    /\ UNCHANGED <<heap, lists, it>>

Ghosts == <<pushes, pops, abs, want, snap>>

Next ==
    \/ \E l \in Lists : DoFront(l) /\ UNCHANGED Ghosts
    \/ \E l \in Lists : DoBack(l) /\ UNCHANGED Ghosts
    \/ \E l \in Lists, v \in Values : DoPushBack(l, v) /\ UNCHANGED Ghosts
    \/ \E l \in Lists, v \in Values : DoPushFront(l, v) /\ UNCHANGED Ghosts
    \/ \E l \in Lists : DoPopBack(l) /\ UNCHANGED Ghosts
    \/ \E l \in Lists : DoPopFront(l) /\ UNCHANGED Ghosts
    \/ \E l \in Lists : DoClear(l) /\ UNCHANGED Ghosts
    \/ \E l \in Lists, v \in Values : DoInsert(l, v) /\ UNCHANGED Ghosts
    \/ \E l \in Lists : DoErase(l) /\ UNCHANGED Ghosts
    \/ \E l, o \in Lists : DoMerge(l, o) /\ UNCHANGED Ghosts
    \/ \E l \in Lists : DoReverse(l) /\ UNCHANGED Ghosts
    \/ \E l \in Lists : DoUnique(l) /\ UNCHANGED Ghosts
    \/ \E l \in Lists : DoSort(l) /\ UNCHANGED Ghosts
    \/ \E l \in Lists : DoBegin(l) /\ UNCHANGED Ghosts
    \/ \E l \in Lists : DoEnd(l) /\ UNCHANGED Ghosts
    \/ \E f \in IterFns : DoIter(f) /\ UNCHANGED Ghosts
    \/ \E f \in IterFns : DoCIter(f) /\ UNCHANGED Ghosts
    \/ \E l \in Lists : DoEqBegin(l) /\ UNCHANGED Ghosts
    \/ \E l \in Lists : DoEqEnd(l) /\ UNCHANGED Ghosts
    \/ DoTake /\ UNCHANGED Ghosts
    \/ DoResume /\ UNCHANGED Ghosts

Spec == Init /\ [][Next]_vars

\* Merging, with an iterator taken before or after.
MergeNext ==
    \/ \E l, o \in Lists : DoMerge(l, o) /\ UNCHANGED Ghosts
    \/ \E l \in Lists : DoBegin(l) /\ UNCHANGED Ghosts
    \/ \E l \in Lists : DoEnd(l) /\ UNCHANGED Ghosts
    \/ \E f \in IterFns : DoIter(f) /\ UNCHANGED Ghosts
    \/ DoResume /\ UNCHANGED Ghosts

SpecMerge == InitMerge /\ [][MergeNext]_vars

----------------------------------------------------------------------------
(* Pushes and pops against an abstract sequence.  pushes and pops count    *)
(* the calls that returned normally; abs is the sequence the calls denote  *)
(* and want is the outcome that sequence prescribes for the last call.     *)

AbsFront(q) == IF q = <<>> THEN Want("container_is_empty", Null) ELSE Want("ok", q[1])
AbsBack(q) == IF q = <<>> THEN Want("container_is_empty", Null) ELSE Want("ok", q[Len(q)])
AbsPop(q) == IF q = <<>> THEN Want("container_is_empty", Null) ELSE Want("ok", Null)
DropLast(q) == IF q = <<>> THEN q ELSE SubSeq(q, 1, Len(q) - 1)
DropFirst(q) == IF q = <<>> THEN q ELSE SubSeq(q, 2, Len(q))

Counted(l, pu, po) ==
    /\ pushes' = [pushes EXCEPT ![l] = @ + (IF res' = "ok" THEN pu ELSE 0)]
    /\ pops' = [pops EXCEPT ![l] = @ + (IF res' = "ok" THEN po ELSE 0)]

PPNext ==
    \/ \E l \in Lists, v \in Values :
          /\ DoPushBack(l, v)
          /\ Counted(l, 1, 0)
          /\ abs' = [abs EXCEPT ![l] = Append(@, v)]
          /\ want' = NoWant
          /\ UNCHANGED snap
    \/ \E l \in Lists, v \in Values :
          /\ DoPushFront(l, v)
          /\ Counted(l, 1, 0)
          /\ abs' = [abs EXCEPT ![l] = <<v>> \o @]
          /\ want' = NoWant
          /\ UNCHANGED snap
    \/ \E l \in Lists :
          /\ DoPopBack(l)
          /\ Counted(l, 0, 1)
          /\ abs' = [abs EXCEPT ![l] = DropLast(@)]
          /\ want' = AbsPop(abs[l])
          /\ UNCHANGED snap
    \/ \E l \in Lists :
          /\ DoPopFront(l)
          /\ Counted(l, 0, 1)
          /\ abs' = [abs EXCEPT ![l] = DropFirst(@)]
          /\ want' = AbsPop(abs[l])
          /\ UNCHANGED snap
    \/ \E l \in Lists :
          /\ DoFront(l)
          /\ want' = AbsFront(abs[l])
          /\ UNCHANGED <<pushes, pops, abs, snap>>
    \/ \E l \in Lists :
          /\ DoBack(l)
          /\ want' = AbsBack(abs[l])
          /\ UNCHANGED <<pushes, pops, abs, snap>>
    \/ DoResume /\ want' = NoWant /\ UNCHANGED <<pushes, pops, abs, snap>>

\* The same, with clear(): the count of pushes and pops no longer tells
\* the size, the abstract sequence still does.
SeqNext ==
    \/ PPNext
    \/ \E l \in Lists :
          /\ DoClear(l)
          /\ abs' = [abs EXCEPT ![l] = <<>>]
          /\ want' = NoWant
          /\ UNCHANGED <<pushes, pops, snap>>

SpecPP == InitPP /\ [][PPNext]_vars
SpecSeq == InitPP /\ [][SeqNext]_vars

----------------------------------------------------------------------------
\* C2: over sequences of push_back, push_front, pop_back and pop_front,
\* size() is the number of pushes minus the number of pops that succeeded,
\* and empty() is true exactly when size() is 0.
C2_SizeIsNetCount ==
    \A l \in Lists :
        /\ Size(lists, l) = pushes[l] - pops[l]
        /\ Empty(lists, l) <=> (Size(lists, l) = 0)
        /\ Empty(lists, l) <=> (pushes[l] = pops[l])

C2_Witness ==
    /\ pushes["A"] = 3
    /\ pops["A"] = 2
    /\ Size(lists, "A") = 1
    /\ last.op = "pop_front"
    /\ res = "container_is_empty"
    /\ last.l = "B"
    /\ pushes["B"] = 0

\* C3: the values read from head.next to tail are the abstract sequence
\* built by append, prepend, drop-last, drop-first and empty; front() and
\* back() return its first and last element; front(), back(), pop_back()
\* and pop_front() throw container_is_empty exactly when it is empty.
C3_RefinesSequence ==
    /\ \A l \in Lists : Elems(heap, lists, l) = abs[l]
    /\ last.op \in {"front", "back", "pop_back", "pop_front"} =>
          /\ res = want.res
          /\ ret.v = want.v
          /\ res \in {"ok", "container_is_empty"}

C3_Witness ==
    /\ last.op = "back"
    /\ res = "ok"
    /\ Len(abs["A"]) = 2
    /\ last.l = "A"
    /\ abs["A"][1] # abs["A"][2]
    /\ ret.v = abs["A"][2]
    /\ pops["A"] > 0

----------------------------------------------------------------------------
IncFns == {"++pre", "++post"}
DecFns == {"--pre", "--post"}

\* The place of node x in the sequence of nodes r.
Pos(r, x) == CHOOSE k \in 1..Len(r) : r[k] = x
Vals(h, r) == [k \in 1..Len(r) |-> h[r[k]].val]

\* C1: while no call is handed an iterator to a node that is gone (and no
\* call has run into undefined behaviour), every list's chain is one path
\* from head to tail, prev is that path reversed, and n is the number of
\* data nodes on it.
C1_ChainInvariant == (~last.stale /\ res # "ub") => Intact

\* C4: for distinct ascending lists, l.merge(o) leaves in l exactly the
\* nodes of both, ascending, n the sum of the two counts; nodes of the same
\* source keep their order and among equal values those of l come first;
\* o ends empty.  No node is copied, freed or allocated.
C4_MergeIsStable ==
    [][(/\ last'.op = "merge"
        /\ Idle
        /\ last'.l # last'.arg.owner
        /\ Ascending(Elems(heap, lists, last'.l))
        /\ Ascending(Elems(heap, lists, last'.arg.owner)))
       =>
       LET l == last'.l
           o == last'.arg.owner
           a == DataNodes(heap, lists, l)
           b == DataNodes(heap, lists, o)
           r == DataNodes(heap', lists', l)
       IN  /\ res' = "ok"
           /\ WellFormed(heap', lists', l)
           /\ WellFormed(heap', lists', o)
           /\ Len(r) = Len(a) + Len(b)
           /\ Range(r) = Range(a) \cup Range(b)
           /\ \A k \in Addrs(heap) : heap'[k].val = heap[k].val /\ heap'[k].st = heap[k].st
           /\ Ascending(Vals(heap', r))
           /\ lists'[l].n = lists[l].n + lists[o].n
           /\ \A j, k \in 1..Len(a) : j < k => Pos(r, a[j]) < Pos(r, a[k])
           /\ \A j, k \in 1..Len(b) : j < k => Pos(r, b[j]) < Pos(r, b[k])
           /\ \A j \in 1..Len(a), k \in 1..Len(b) :
                 heap[a[j]].val = heap[b[k]].val => Pos(r, a[j]) < Pos(r, b[k])
           /\ lists'[o].n = 0
           /\ heap'[lists[o].head].next = lists[o].tail
           /\ heap'[lists[o].tail].prev = lists[o].head
           /\ lists'[l].head = lists[l].head /\ lists'[l].tail = lists[l].tail
           /\ lists'[o].head = lists[o].head /\ lists'[o].tail = lists[o].tail
      ]_vars

\* A.merge(B) has interleaved <<1, 2>> from B into <<1, 2>> of A; the
\* iterator was taken at B's first node before the merge.
C4_Witness ==
    /\ last.op = "merge"
    /\ last.l = "A"
    /\ last.arg.owner = "B"
    /\ res = "ok"
    /\ Elems(heap, lists, "A") = <<1, 1, 2, 2>>
    /\ it.owner = "B"
    /\ it.p = DataNodes(heap, lists, "A")[2]
    /\ lists["B"].n = 0

\* Iterator i was obtained from another list and references a data node
\* that now sits in l's chain.
Moved(l, i) ==
    /\ i.owner \in Lists
    /\ i.owner # l
    /\ i.p \in Range(DataNodes(heap, lists, l))

\* C5: an iterator whose node merge moved into l is a valid iterator of l:
\* l.insert and l.erase accept it, it equals l's own iterator at that node,
\* and ++ on it stops at l's end().
C5_MovedIteratorValid ==
    /\ (last.op \in {"insert", "erase"} /\ Moved(last.l, last.arg)) => res # "invalid_iterator"
    /\ (/\ last.op = "==begin"
        /\ Moved(last.l, last.arg)
        /\ last.arg.p = LoadNext(heap, lists[last.l].head)) => ret.b
    /\ (/\ last.op \in IncFns
        /\ last.arg.owner \in Lists
        /\ \E l \in Lists : l # last.arg.owner /\ last.arg.p = lists[l].tail)
       => res = "invalid_iterator"

\* C6: -- on begin() of a non-empty list throws invalid_iterator and leaves
\* the iterator where it was (prefix and postfix, iterator and
\* const_iterator).
C6_DecBeginFails ==
    (/\ last.op \in DecFns
     /\ last.arg.owner \in Lists
     /\ lists[last.arg.owner].n # 0
     /\ IterEq(last.arg, ListBegin(heap, lists, last.arg.owner)))
    => (res = "invalid_iterator" /\ last.after = last.arg)

\* The call threw invalid_iterator and its operand is where it was.
Rejected ==
    /\ res = "invalid_iterator"
    /\ last.after = last.arg
    /\ last.cls = "iterator" => it = last.arg

\* C7: * and -> and ++ on end() throw invalid_iterator, and so does every
\* operator on a default-constructed iterator; the iterator does not move.
C7_EndAndUnboundFail ==
    /\ (/\ last.op \in IncFns \cup {"*", "->"}
        /\ last.arg.owner \in Lists
        /\ IterEq(last.arg, ListEnd(lists, last.arg.owner))) => Rejected
    /\ (last.op \in IterFns /\ last.arg = Unbound) => Rejected

C7_Witness ==
    /\ last.op = "++post"
    /\ last.cls = "const_iterator"
    /\ lists["A"].n = 2
    /\ last.arg = ListEnd(lists, "A")
    /\ res = "invalid_iterator"

\* A call l.insert(i, v) or l.erase(i) with i obtained from the other list.
CrossCall ==
    /\ Idle
    /\ last'.op \in {"insert", "erase"}
    /\ last'.arg.owner \in Lists
    /\ last'.arg.owner # last'.l

\* C8 as claimed: every such call throws invalid_iterator and changes
\* neither list.
C8_CrossListInvalid ==
    [][CrossCall => (res' = "invalid_iterator" /\ heap' = heap /\ lists' = lists)]_vars

\* C8: every such call throws and changes neither list: erase on an empty
\* list throws container_is_empty, every other one invalid_iterator.
C8_CrossListRejected ==
    [][CrossCall =>
        /\ res' = IF last'.op = "erase" /\ lists[last'.l].n = 0
                  THEN "container_is_empty" ELSE "invalid_iterator"
        /\ heap' = heap
        /\ lists' = lists]_vars

C8_Witness ==
    /\ last.op = "insert"
    /\ last.l = "B"
    /\ last.arg.owner = "A"
    /\ last.arg.p \in Range(DataNodes(heap, lists, "A"))
    /\ lists["B"].n = 1
    /\ res = "invalid_iterator"

\* C9: a call that throws container_is_empty or invalid_iterator leaves
\* the heap, both list objects (head, tail, n) and the iterator as they
\* were.
C9_FailureChangesNothing ==
    [][res' \in {"container_is_empty", "invalid_iterator"} =>
        /\ heap' = heap
        /\ lists' = lists
        /\ it' = it
        /\ last'.after = last'.arg]_vars

C9_Witness ==
    /\ last.op = "erase"
    /\ res = "invalid_iterator"
    /\ last.l = "A"
    /\ lists["A"].n = 2
    /\ last.arg = ListEnd(lists, "A")

\* C10: the sentinels of a list stay allocated and at the two ends of its
\* chain, and every data node lies between them.
C10_SentinelsPermanent ==
    ~last.stale =>
        /\ \A l \in Lists :
              LET c == Chain(heap, lists, l)
              IN  /\ Live(heap, lists[l].head)
                  /\ Live(heap, lists[l].tail)
                  /\ heap[lists[l].head].prev = Null
                  /\ heap[lists[l].tail].next = Null
                  /\ c[Len(c)] = lists[l].tail
        /\ \A k \in Addrs(heap) :
              (heap[k].st = "live" /\ heap[k].val # Null) =>
                 \E l \in Lists : k \in Range(DataNodes(heap, lists, l))

----------------------------------------------------------------------------
\* Sequence s with x put in front of its k-th element.
PutBefore(s, k, x) == SubSeq(s, 1, k - 1) \o <<x>> \o SubSeq(s, k, Len(s))

\* C11: l.insert(pos, v) with pos an iterator of l at any node of l's chain,
\* data node or either sentinel, returns normally: a new node holding v is
\* linked right before pos, the other nodes keep their order, n grows by
\* one and the iterator returned references the new node.
C11_InsertAtLinkedNode ==
    [][(/\ Idle
        /\ last'.op = "insert"
        /\ last'.arg.owner = last'.l
        /\ last'.arg.p \in Range(Chain(heap, lists, last'.l)))
       =>
       LET l == last'.l
           c == Chain(heap, lists, l)
           cur == Fresh(heap)
       IN  /\ res' = "ok"
           /\ Chain(heap', lists', l) = PutBefore(c, Pos(c, last'.arg.p), cur)
           /\ heap'[cur].val = last'.v
           /\ \A k \in Range(c) : heap'[k].val = heap[k].val /\ heap'[k].st = heap[k].st
           /\ lists'[l].n = lists[l].n + 1
           /\ ret' = RetIter(Iter(cur, l))
      ]_vars

----------------------------------------------------------------------------
(* insert, then erase of what insert returned.  snap holds the state at   *)
(* the insert: tag is "insert" once insert has returned, "taken" once the *)
(* caller holds the iterator it returned, "erased" once that iterator has *)
(* been erased with no other mutation in between.  The caller erases     *)
(* nothing but the iterator it took from insert.                          *)

\* The iterator insert returned at the call snap remembers.
Inserted == Iter(Fresh(snap.heap), snap.l)

RoundInsert(l, v) ==
    /\ DoInsert(l, v)
    /\ snap' = IF res' = "ok" THEN Snap("insert", l, NoList, heap, lists, it, v) ELSE NoSnap

RoundTake ==
    /\ DoTake
    /\ snap' = IF last.op = "insert" /\ snap.tag = "insert"
               THEN [snap EXCEPT !.tag = "taken"] ELSE NoSnap

RoundErase(l) ==
    /\ snap.tag = "taken"
    /\ it = Inserted
    /\ DoErase(l)
    /\ snap' = IF l = snap.l THEN [snap EXCEPT !.tag = "erased"] ELSE NoSnap

RoundResume ==
    /\ DoResume
    /\ snap' = IF snap.tag = "taken" THEN snap ELSE NoSnap

RoundNext ==
    \/ \E l \in Lists, v \in Values : RoundInsert(l, v) /\ UNCHANGED <<pushes, pops, abs, want>>
    \/ RoundTake /\ UNCHANGED <<pushes, pops, abs, want>>
    \/ \E l \in Lists : RoundErase(l) /\ UNCHANGED <<pushes, pops, abs, want>>
    \/ RoundResume /\ UNCHANGED <<pushes, pops, abs, want>>
    \/ \E l \in Lists : DoBegin(l) /\ UNCHANGED Ghosts
    \/ \E l \in Lists : DoEnd(l) /\ UNCHANGED Ghosts
    \/ \E f \in {"++pre", "--pre", "*"} : DoIter(f) /\ UNCHANGED Ghosts

SpecRound == InitFilled(MaxData, 0, 1) /\ [][RoundNext]_vars

\* The position snap remembers is a data node of the list or its end().
AtValidPos ==
    /\ snap.it.owner = snap.l
    /\ snap.it.p \in Range(DataNodes(snap.heap, snap.lists, snap.l))
                        \cup {snap.lists[snap.l].tail}

\* C12: it = l.insert(pos, v) at a data node or at end() dereferences to v;
\* l.erase(it) right after returns an iterator equal to pos (end() when
\* the new node was last) and puts back the sequence, the nodes and the
\* count that were there before the insert.
C12_InsertEraseRoundTrip ==
    /\ (snap.tag = "insert" /\ AtValidPos) =>
           /\ res = "ok"
           /\ Iter(ret.p, ret.owner) = Inserted
    /\ (snap.tag = "taken" /\ AtValidPos /\ last.op \in {"*", "->"} /\ last.arg = Inserted) =>
           /\ res = "ok"
           /\ ret.v = snap.v
    /\ (snap.tag = "erased" /\ AtValidPos) =>
           /\ res = "ok"
           /\ Iter(ret.p, ret.owner) = snap.it
           /\ snap.it.p = snap.lists[snap.l].tail => IterEq(Iter(ret.p, ret.owner), ListEnd(lists, snap.l))
           /\ Elems(heap, lists, snap.l) = Elems(snap.heap, snap.lists, snap.l)
           /\ DataNodes(heap, lists, snap.l) = DataNodes(snap.heap, snap.lists, snap.l)
           /\ lists = snap.lists
           /\ \A k \in Addrs(heap) : snap.heap[k].st = "live" => heap[k] = snap.heap[k]
           /\ heap[Inserted.p].st = "freed"

\* A.insert(pos, v) with pos at the second of two elements, then erase of
\* the iterator returned.
C12_Witness ==
    /\ snap.tag = "erased"
    /\ last.op = "erase"
    /\ res = "ok"
    /\ snap.l = "A"
    /\ snap.lists["A"].n = 2
    /\ snap.it.p = DataNodes(snap.heap, snap.lists, "A")[2]
    /\ ret.p = snap.it.p
    /\ snap.v # snap.heap[snap.it.p].val

----------------------------------------------------------------------------
(* sort, unique and reverse on filled lists (SpecAlg), and reverse with an *)
(* iterator (SpecRev).  snap holds the state at the last of these calls    *)
(* until the caller goes on; after a reverse it is kept (tag "reverse")    *)
(* until the next call that is not a use of the iterator held at the       *)
(* reverse, and a second reverse of the same list right after the first    *)
(* makes the tag "reverse2".                                               *)

AlgSort(l) ==
    /\ DoSort(l)
    /\ snap' = Snap("sort", l, NoList, heap, lists, it, Null)

AlgUnique(l) ==
    /\ DoUnique(l)
    /\ snap' = Snap("unique", l, NoList, heap, lists, it, Null)

AlgReverse(l) ==
    /\ DoReverse(l)
    /\ snap' = IF snap.tag = "reverse" /\ snap.l = l
               THEN [snap EXCEPT !.tag = "reverse2"]
               ELSE Snap("reverse", l, NoList, heap, lists, it, Null)

AlgIter(f) ==
    /\ DoIter(f)
    /\ snap' = IF snap.tag = "reverse" /\ it = snap.it THEN snap ELSE NoSnap

AlgResume ==
    /\ DoResume
    /\ snap' = IF snap.tag = "reverse" /\ last.op = "reverse" THEN snap ELSE NoSnap

AlgNext ==
    \/ \E l \in Lists : AlgSort(l) /\ UNCHANGED <<pushes, pops, abs, want>>
    \/ \E l \in Lists : AlgUnique(l) /\ UNCHANGED <<pushes, pops, abs, want>>
    \/ \E l \in Lists : AlgReverse(l) /\ UNCHANGED <<pushes, pops, abs, want>>
    \/ AlgResume /\ UNCHANGED <<pushes, pops, abs, want>>

SpecAlg == InitFilled(MaxLen, 1, 0) /\ [][AlgNext]_vars

RevNext ==
    \/ \E l \in Lists : AlgReverse(l) /\ UNCHANGED <<pushes, pops, abs, want>>
    \/ \E f \in IterFns : AlgIter(f) /\ UNCHANGED <<pushes, pops, abs, want>>
    \/ AlgResume /\ UNCHANGED <<pushes, pops, abs, want>>
    \/ \E l \in Lists : DoBegin(l) /\ snap' = NoSnap /\ UNCHANGED <<pushes, pops, abs, want>>
    \/ \E l \in Lists : DoEnd(l) /\ snap' = NoSnap /\ UNCHANGED <<pushes, pops, abs, want>>

SpecRev == InitFilled(MaxLen, 0, 0) /\ [][RevNext]_vars

\* Every node that was live at the call snap remembers is live and holds
\* the value it held.
SameNodes ==
    \A k \in Addrs(heap) :
        snap.heap[k].st = "live" => (heap[k].st = "live" /\ heap[k].val = snap.heap[k].val)

\* The list that was not called is as it was.
OtherListUntouched ==
    \A o \in Lists \ {snap.l} :
        /\ lists[o] = snap.lists[o]
        /\ \A k \in Range(Chain(snap.heap, snap.lists, o)) : heap[k] = snap.heap[k]

\* C13: l.sort() leaves in l the same nodes with the same values and the
\* same count, linked in ascending order of value between the same
\* sentinels, prev being next reversed; with n <= 1 it stores nothing.
C13_SortRelinksAscending ==
    (snap.tag = "sort" /\ WellFormed(snap.heap, snap.lists, snap.l)) =>
        LET l == snap.l
            a == DataNodes(snap.heap, snap.lists, l)
            r == DataNodes(heap, lists, l)
        IN  /\ res = "ok"
            /\ WellFormed(heap, lists, l)
            /\ Range(r) = Range(a)
            /\ Len(r) = Len(a)
            /\ SameNodes
            /\ lists = snap.lists
            /\ Ascending(Vals(heap, r))
            /\ OtherListUntouched
            /\ snap.lists[l].n <= 1 => heap = snap.heap

C13_Witness ==
    /\ snap.tag = "sort"
    /\ snap.l = "A"
    /\ res = "ok"
    /\ Elems(snap.heap, snap.lists, "A") = <<2, 1, 2>>
    /\ Elems(heap, lists, "A") = <<1, 2, 2>>

\* C14: l.reverse() turns the sequence of l's nodes (and so of its values)
\* into its reverse, for the empty list too, keeping n and every node; a
\* second reverse() right after gives back the heap and the list objects
\* exactly: order, head and tail sentinels, and every prev and next.
C14_ReverseTwiceRestores ==
    /\ (snap.tag = "reverse" /\ last.op = "reverse") =>
           LET l == snap.l
           IN  /\ res = "ok"
               /\ WellFormed(heap, lists, l)
               /\ DataNodes(heap, lists, l) = Rev(DataNodes(snap.heap, snap.lists, l))
               /\ Elems(heap, lists, l) = Rev(Elems(snap.heap, snap.lists, l))
               /\ lists[l].n = snap.lists[l].n
               /\ lists[l].head = snap.lists[l].tail
               /\ lists[l].tail = snap.lists[l].head
               /\ SameNodes
               /\ OtherListUntouched
    /\ snap.tag = "reverse2" =>
           /\ res = "ok"
           /\ heap = snap.heap
           /\ lists = snap.lists

C14_Witness ==
    /\ snap.tag = "reverse2"
    /\ last.op = "reverse"
    /\ snap.l = "A"
    /\ Elems(heap, lists, "A") = <<1, 2, 2>>
    /\ lists["A"].head = 1
    /\ res = "ok"

\* The call that has just returned is the first use, after l.reverse(), of
\* the iterator the caller held at the reverse, an iterator of l.
UsesHeldIterator ==
    /\ snap.tag = "reverse"
    /\ last.op \in IterFns
    /\ last.cls = "iterator"
    /\ last.arg = snap.it
    /\ snap.it.owner = snap.l

\* C15: an iterator held across l.reverse() stays at its node.  At a data
\* node * and -> give the same value, ++ moves to what was prev (end() if
\* the node was first) and -- to what was next.  At what was end() it is
\* now at the head sentinel: ++ moves to the new first element, -- throws
\* invalid_iterator.
C15_IteratorAcrossReverse ==
    LET l == snap.l
        x == snap.it.p
        old == snap.heap
    IN  /\ (UsesHeldIterator /\ x \in Range(DataNodes(old, snap.lists, l))) =>
               /\ res = "ok"
               /\ last.op \in {"*", "->"} => (ret.v = old[x].val /\ last.after = last.arg)
               /\ last.op \in IncFns =>
                      /\ last.after = Iter(old[x].prev, l)
                      /\ x = DataNodes(old, snap.lists, l)[1] => last.after = ListEnd(lists, l)
               /\ last.op \in DecFns => last.after = Iter(old[x].next, l)
        /\ (UsesHeldIterator /\ x = snap.lists[l].tail) =>
               /\ x = lists[l].head
               /\ (last.op \in IncFns /\ lists[l].n # 0) =>
                      /\ res = "ok"
                      /\ last.after = ListBegin(heap, lists, l)
                      /\ last.after.p = DataNodes(heap, lists, l)[1]
               /\ last.op \in DecFns => (res = "invalid_iterator" /\ last.after = last.arg)

\* it = A.end(); A.reverse(); --it on a list of three elements.
C15_Witness ==
    /\ UsesHeldIterator
    /\ last.op = "--pre"
    /\ snap.l = "A"
    /\ snap.it.p = snap.lists["A"].tail
    /\ lists["A"].n = 3
    /\ res = "invalid_iterator"

\* The nodes of a, from the k-th on, that start a run of equal values: the
\* first node, and every node whose value differs from its predecessor's.
RECURSIVE FirstOfRuns(_, _, _)
FirstOfRuns(h, a, k) ==
    IF k > Len(a) THEN <<>>
    ELSE (IF k = 1 \/ h[a[k]].val # h[a[k - 1]].val THEN <<a[k]>> ELSE <<>>)
         \o FirstOfRuns(h, a, k + 1)

\* C16: l.unique() keeps the first node of every run of equal neighbours,
\* in order, and frees the others, each once; no two neighbours are equal
\* afterwards, equal values that were not neighbours both stay, n drops by
\* the number of nodes removed; with n <= 1 it stores nothing.
C16_UniqueKeepsRunHeads ==
    (snap.tag = "unique" /\ WellFormed(snap.heap, snap.lists, snap.l)) =>
        LET l == snap.l
            a == DataNodes(snap.heap, snap.lists, l)
            keep == FirstOfRuns(snap.heap, a, 1)
            r == DataNodes(heap, lists, l)
        IN  /\ res = "ok"
            /\ WellFormed(heap, lists, l)
            /\ r = keep
            /\ \A k \in 1..(Len(r) - 1) : heap[r[k]].val # heap[r[k + 1]].val
            /\ \A k \in Range(r) : heap[k].val = snap.heap[k].val
            /\ \A k \in Range(a) \ Range(keep) : heap[k].st = "freed"
            /\ \A k \in Addrs(heap) \ Range(a) : heap[k].st = snap.heap[k].st
            /\ lists[l].n = snap.lists[l].n - (Len(a) - Len(keep))
            /\ lists[l].head = snap.lists[l].head
            /\ lists[l].tail = snap.lists[l].tail
            /\ OtherListUntouched
            /\ snap.lists[l].n <= 1 => heap = snap.heap

\* unique() on <<1, 1, 2>>.
C16_Witness ==
    /\ snap.tag = "unique"
    /\ snap.l = "A"
    /\ res = "ok"
    /\ Elems(snap.heap, snap.lists, "A") = <<1, 1, 2>>
    /\ Elems(heap, lists, "A") = <<1, 2>>
    /\ lists["A"].n = 2

----------------------------------------------------------------------------
(* Copies.  A is alive and filled; B is alive, or its lifetime has ended   *)
(* and it is constructed again as a copy (list B(A)).  The caller makes    *)
(* one copy, list l(o) or l = o, and then calls the copy only.  snap holds *)
(* the state at the copy (tag "copy", l the copy, o the source).           *)

\* A filled by push_back; B filled by push_back and then perhaps destroyed.
\* The heap has room for one copy of A, with its sentinels where B is to be
\* constructed, and one node more.
InitCopy ==
    \E qa \in SeqsUpTo(MaxLen), qb \in SeqsUpTo(1), gone \in BOOLEAN :
        LET room == 2 * Len(qa) + Len(qb) + 1 + (IF gone THEN 2 ELSE 0)
            fa == Filled(EmptyHeap(room), EmptyLists, "A", qa)
            fb == Filled(fa.heap, fa.lists, "B", qb)
            d == Destroy(fb.heap, fb.lists, "B")
        IN  IF gone THEN InitWith(d.heap, d.lists) ELSE InitWith(fb.heap, fb.lists)

\* List l is the copy snap remembers, and not its own source.
IsCopy(l) == snap.tag = "copy" /\ l = snap.l /\ l # snap.o /\ Constructed(lists, l)

\* list l(o), for an l that is not alive
DoCopyConstruct(l, o) ==
    /\ snap.tag = "none"
    /\ ~Constructed(lists, l)
    /\ Constructed(lists, o)
    /\ Room(heap) >= 2 + Len(DataNodes(heap, lists, o))
    /\ Commit(CopyConstruct(heap, lists, l, o),
              Call("copy", l, "none", Iter(Null, o), Unbound, Null))
    /\ snap' = Snap("copy", l, o, heap, lists, it, Null)

\* l = o
DoAssign(l, o) ==
    /\ snap.tag = "none"
    /\ Constructed(lists, l)
    /\ Constructed(lists, o)
    /\ l # o => Room(heap) >= Len(DataNodes(heap, lists, o))
    /\ Commit(Assign(heap, lists, l, o), Call("=", l, "none", Iter(Null, o), Unbound, Null))
    /\ snap' = Snap("copy", l, o, heap, lists, it, Null)

\* The copy goes out of scope.
CopyDestroy(l) ==
    IsCopy(l) /\ Commit(Destroy(heap, lists, l), ListCall("~list", l, Null)) /\ UNCHANGED snap

CopyPushBack(l, v) == IsCopy(l) /\ DoPushBack(l, v) /\ UNCHANGED snap
CopyPopFront(l) == IsCopy(l) /\ DoPopFront(l) /\ UNCHANGED snap
CopyClear(l) == IsCopy(l) /\ DoClear(l) /\ UNCHANGED snap

CopyNext ==
    \/ \E l, o \in Lists : DoCopyConstruct(l, o) /\ UNCHANGED <<pushes, pops, abs, want>>
    \/ \E l, o \in Lists : DoAssign(l, o) /\ UNCHANGED <<pushes, pops, abs, want>>
    \/ \E l \in Lists : CopyDestroy(l) /\ UNCHANGED <<pushes, pops, abs, want>>
    \/ \E l \in Lists, v \in Values : CopyPushBack(l, v) /\ UNCHANGED <<pushes, pops, abs, want>>
    \/ \E l \in Lists : CopyPopFront(l) /\ UNCHANGED <<pushes, pops, abs, want>>
    \/ \E l \in Lists : CopyClear(l) /\ UNCHANGED <<pushes, pops, abs, want>>
    \/ DoResume /\ UNCHANGED Ghosts

SpecCopy == InitCopy /\ [][CopyNext]_vars

\* The source of the copy snap remembers is as it was at the copy: the
\* same list object, the same nodes with the same links and values.
SourceUnchanged ==
    /\ lists[snap.o] = snap.lists[snap.o]
    /\ \A k \in Range(Chain(snap.heap, snap.lists, snap.o)) : heap[k] = snap.heap[k]

\* C17: list l(o) and l = o (onto an empty or a non-empty l) leave in l the
\* values of o in o's order and o's count, in nodes none of which is a
\* node of o; l = l changes nothing; o is as it was after the copy and
\* after every later call on the copy.
C17_CopyIsDeep ==
    /\ (snap.tag = "copy" /\ last.op \in {"copy", "="}) =>
           /\ res = "ok"
           /\ WellFormed(heap, lists, snap.l)
           /\ Elems(heap, lists, snap.l) = Elems(snap.heap, snap.lists, snap.o)
           /\ lists[snap.l].n = snap.lists[snap.o].n
           /\ snap.l # snap.o =>
                  Range(Chain(heap, lists, snap.l)) \cap Range(Chain(heap, lists, snap.o)) = {}
           /\ snap.l = snap.o => (heap = snap.heap /\ lists = snap.lists)
    /\ snap.tag = "copy" => SourceUnchanged

\* list B(A) with A of three elements, then B.push_back(v).
C17_Witness ==
    /\ snap.tag = "copy"
    /\ snap.l = "B"
    /\ snap.o = "A"
    /\ ~Constructed(snap.lists, "B")
    /\ last.op = "push_back"
    /\ last.l = "B"
    /\ lists["B"].n = 4
    /\ lists["A"].n = 3
    /\ res = "ok"

----------------------------------------------------------------------------
\* The nodes reachable from l's head.
Owned(l) == Range(Chain(heap, lists, l))

\* C18: while no call is handed an iterator to a node that is gone and no
\* call has run into undefined behaviour, the allocated nodes are exactly
\* the nodes reachable from the heads of the lists, no node is reachable
\* from two heads, and each list reaches n + 2 nodes.
C18_ExclusiveOwnership ==
    (~last.stale /\ res # "ub") =>
        /\ {k \in Addrs(heap) : heap[k].st = "live"} = UNION {Owned(l) : l \in Lists}
        /\ \A l, o \in Lists : l # o => Owned(l) \cap Owned(o) = {}
        /\ \A l \in Lists : Cardinality(Owned(l)) = lists[l].n + 2

\* ++i, k times over; the outcome of the first ++ that fails, if one does.
RECURSIVE IncTimes(_, _, _, _)
IncTimes(h, ls, i, k) ==
    IF k <= 0 THEN ItOut(i, RetIter(i), "ok")
    ELSE LET o == IterInc(h, ls, i)
         IN  IF o.res = "ok" THEN IncTimes(h, ls, o.it, k - 1) ELSE o

\* C19: while no call is handed an iterator to a node that is gone and no
\* call has run into undefined behaviour, for every list: size() times ++
\* from begin() succeed and arrive at end(), not earlier, and one more ++
\* throws; -- on end() moves to the last data node when the list is not
\* empty and throws invalid_iterator when it is; begin() == end() exactly
\* when empty().
C19_IterationCountsSize ==
    (~last.stale /\ res # "ub") =>
        \A l \in Lists :
            LET b == ListBegin(heap, lists, l)
                e == ListEnd(lists, l)
                n == Size(lists, l)
                dec == IterDec(heap, lists, e)
            IN  /\ n >= 0
                /\ IncTimes(heap, lists, b, n).res = "ok"
                /\ IterEq(IncTimes(heap, lists, b, n).it, e)
                /\ \A j \in 0..(n - 1) : ~IterEq(IncTimes(heap, lists, b, j).it, e)
                /\ IterInc(heap, lists, e).res = "invalid_iterator"
                /\ n # 0 => /\ dec.res = "ok"
                            /\ LoadVal(heap, dec.it.p) # Null
                            /\ LoadNext(heap, dec.it.p) = e.p
                /\ n = 0 => dec.res = "invalid_iterator"
                /\ IterEq(b, e) <=> Empty(lists, l)

----------------------------------------------------------------------------
(* Termination.  Here the caller goes on after every call that returned or *)
(* threw, also when the call left n different from the number of nodes, so *)
(* that the loops are run on every state the calls below can produce.  A   *)
(* run ends with clear(): the list is then empty as at the start, with     *)
(* less storage left to allocate from.                                     *)

\* The caller goes on to its next call.
DoGoOn ==
    /\ last.op \notin {"none", "clear"}
    /\ res \notin {"ub", "hang"}
    /\ res' = "ok"
    /\ ret' = NoRet
    /\ last' = NoCall
    /\ UNCHANGED <<heap, lists, it>>

TermNext ==
    \/ \E l \in Lists, v \in Values : DoPushBack(l, v) /\ UNCHANGED Ghosts
    \/ \E l \in Lists : DoBegin(l) /\ UNCHANGED Ghosts
    \/ \E l \in Lists, v \in Values : DoInsert(l, v) /\ UNCHANGED Ghosts
    \/ \E l \in Lists : DoClear(l) /\ UNCHANGED Ghosts
    \/ \E l, o \in Lists : DoMerge(l, o) /\ UNCHANGED Ghosts
    \/ \E l \in Lists : DoReverse(l) /\ UNCHANGED Ghosts
    \/ \E l \in Lists : DoUnique(l) /\ UNCHANGED Ghosts
    \/ \E l \in Lists : DoSort(l) /\ UNCHANGED Ghosts
    \/ DoGoOn /\ UNCHANGED Ghosts

SpecTerm == Init /\ [][TermNext]_vars

\* C20: no call of clear, reverse, unique, sort or merge runs for ever;
\* and short of undefined behaviour tail->next and head->prev are null and
\* following next from head arrives at tail, in every list.
C20_LoopsTerminate ==
    /\ res # "hang"
    /\ res # "ub" =>
           \A l \in Lists :
               LET c == Chain(heap, lists, l)
               IN  /\ LoadNext(heap, lists[l].tail) = Null
                   /\ LoadPrev(heap, lists[l].head) = Null
                   /\ Live(heap, lists[l].tail)
                   /\ Len(c) >= 2
                   /\ c[Len(c)] = lists[l].tail

\* A.merge(B) has returned on a B whose n was one less than the number of
\* its nodes.
C20_Witness ==
    /\ last.op = "merge"
    /\ last.l = "A"
    /\ last.arg.owner = "B"
    /\ res = "ok"
    /\ lists["B"].n = -1
    /\ Len(DataNodes(heap, lists, "A")) = 2

====
